---- MODULE Spec2Model ----
(***************************************************************************)
(* Model of courts-db-ts: the lazily initialised court registry            *)
(* (src/src/index.ts) and the loader / filter helpers (src/src/utils.ts).  *)
(*                                                                         *)
(* Strings are sequences of one-character strings, so that includes(),     *)
(* toLowerCase(), unidecode() and whitespace normalisation are computed    *)
(* character by character.  A JavaScript value that the code only tests    *)
(* for truthiness (a missing / null / empty string field) is the empty     *)
(* sequence.  An optional non-string value is None (<<>>) or Some(v)       *)
(* (<<v>>).                                                                *)
(***************************************************************************)
EXTENDS Integers, Sequences, FiniteSets, TLC

VARIABLES courtsJson, req, courts, courtDict, regexes,
          loadCount, dictCount, gatherCount, calls, last

vars == <<courtsJson, req, courts, courtDict, regexes,
          loadCount, dictCount, gatherCount, calls, last>>

None == <<>>
Some(v) == <<v>>
IsNone(o) == Len(o) = 0
Val(o) == o[1]

(***************************************************************************)
(* Bounds of the model.                                                    *)
(***************************************************************************)
MaxCourts == 3
MaxDate == 4
MaxCalls == 2

Range(s) == {s[i] : i \in 1..Len(s)}

RECURSIVE SelectSeq2(_, _)
\* Array.prototype.filter with a predicate given as a set of kept indices.
SelectSeq2(s, keep) ==
  IF Len(s) = 0 THEN <<>>
  ELSE SelectSeq2(SubSeq(s, 1, Len(s) - 1), keep)
         \o (IF Len(s) \in keep THEN <<s[Len(s)]>> ELSE <<>>)

(***************************************************************************)
(* Strings.                                                                *)
(***************************************************************************)
\* String.prototype.toLowerCase, on the characters the model uses.
LowerChar(c) ==
  CASE c = "C" -> "c"
    [] c = "F" -> "f"
    [] c = "E" -> "e"
    [] OTHER -> c

toLowerCase(s) == [i \in 1..Len(s) |-> LowerChar(s[i])]

\* unidecode: transliteration to ASCII.  An accented letter is written as the
\* letter followed by an apostrophe ("e'" is e with acute accent).
UnidecodeChar(c) ==
  CASE c = "e'" -> "e"
    [] c = "E'" -> "E"
    [] OTHER -> c

unidecode(s) == [i \in 1..Len(s) |-> UnidecodeChar(s[i])]

\* String.prototype.includes: sub occurs in s as a contiguous substring.
includes(s, sub) ==
  \E i \in 1..(Len(s) - Len(sub) + 1) : SubSeq(s, i, i + Len(sub) - 1) = sub

RECURSIVE CollapseSpaces(_)
CollapseSpaces(s) ==
  IF Len(s) = 0 THEN <<>>
  ELSE LET r == CollapseSpaces(Tail(s))
       IN IF s[1] = " " /\ (Len(r) = 0 \/ r[1] = " ") THEN r ELSE <<s[1]>> \o r

\* stripPunc (text-utils.ts): runs of whitespace become one space, ends trimmed.
stripPunc(s) ==
  LET c == CollapseSpaces(s)
  IN IF Len(c) > 0 /\ c[1] = " " THEN Tail(c) ELSE c

\* The normalisation of the query string in findCourtIdsByName.
NormalizeInput(courtStr) == toLowerCase(unidecode(stripPunc(courtStr)))

(***************************************************************************)
(* Compiled patterns.  A pattern of the registry is a literal text; the    *)
(* character "(" stands for a construct the PCRE compiler rejects          *)
(* (an unbalanced group).  A compiled pattern is searched for anywhere in  *)
(* the subject, case-insensitively, leftmost occurrence first.             *)
(***************************************************************************)
\* compileRegex throws on this pattern.
CompileFails(pattern) == "(" \in Range(pattern)

\* The body of the try block of gatherRegexes for one pattern: variable
\* substitution and named-group conversion leave a pattern without ${...} and
\* (?P<...>) as it is; unidecode; the (?i) flag.
CompilePattern(pattern) == [src |-> unidecode(pattern), icase |-> TRUE]

MatchAt(re, subject, i) ==
  LET span == SubSeq(subject, i, i + Len(re.src) - 1)
  IN IF re.icase THEN toLowerCase(span) = toLowerCase(re.src) ELSE span = re.src

\* pcreRegex.match(subject): {matched, fullMatch}.
PcreMatch(re, subject) ==
  LET hits == {i \in 1..(Len(subject) - Len(re.src) + 1) : MatchAt(re, subject, i)}
  IN IF hits = {} THEN [matched |-> FALSE, fullMatch |-> <<>>]
     ELSE LET i == CHOOSE h \in hits : \A k \in hits : h <= k
          IN [matched |-> TRUE, fullMatch |-> SubSeq(subject, i, i + Len(re.src) - 1)]

(***************************************************************************)
(* The registry file (courts.json after template expansion).               *)
(***************************************************************************)
s_Ce == <<"C", "e'">>
s_ce == <<"c", "e">>
s_4ce == <<"4", " ", "c", "e">>
s_bad == <<"(", "c">>
\* A pattern that matches the empty string (an optional group, x*): in the
\* literal model, the empty pattern.
s_opt == <<>>
s_fl == <<"f", "l">>
s_mi == <<"m", "i">>
id_ci == <<"c", "i">>
id_c4 == <<"c", "4">>
id_g == <<"g">>
id_bap == <<"b", "a", "p">>
id_t == <<"t">>
id_n == <<"n">>
id_zz == <<"z", "z">>
id_constructor == <<"c", "o", "n", "s", "t", "r", "u", "c", "t", "o", "r">>

in_4ce == <<"4", " ", " ", "C", "e'">>
in_ce == <<" ", "C", "e'">>
in_bad == <<"(", "c">>

\* The query strings the calls are made with.
Inputs == {in_4ce, in_ce, in_bad}

DateRange(start, end) == [start |-> start, end |-> end]

\* The records a registry is assembled from.  Two records share the id "ci":
\* the second closes a cycle of parent links ci -> g -> c4 -> ci.
Pool == <<
  [id |-> id_ci, name |-> s_Ce, regex |-> <<>>, type |-> "trial",
   location |-> s_fl, jurisdiction |-> <<>>, parent |-> <<>>,
   dates |-> <<DateRange(Some(1), Some(3))>>, examples |-> <<in_ce>>],
  [id |-> id_ci, name |-> s_Ce, regex |-> <<s_opt>>, type |-> "trial",
   location |-> <<>>, jurisdiction |-> s_fl, parent |-> id_g,
   dates |-> <<DateRange(None, None)>>, examples |-> <<in_ce>>],
  [id |-> id_c4, name |-> s_4ce, regex |-> <<s_ce, s_bad>>, type |-> "",
   location |-> s_mi, jurisdiction |-> <<>>, parent |-> id_ci,
   dates |-> <<>>, examples |-> <<in_4ce>>],
  [id |-> id_g, name |-> s_ce, regex |-> <<>>, type |-> "",
   location |-> <<>>, jurisdiction |-> <<>>, parent |-> id_c4,
   dates |-> <<DateRange(Some(2), None)>>, examples |-> <<in_ce>>],
  [id |-> id_bap, name |-> s_4ce, regex |-> <<>>, type |-> "trial",
   location |-> s_fl, jurisdiction |-> <<>>, parent |-> <<>>,
   dates |-> <<DateRange(None, Some(2))>>, examples |-> <<in_4ce>>],
  [id |-> id_t, name |-> s_ce, regex |-> <<>>, type |-> "bankruptcy",
   location |-> s_mi, jurisdiction |-> <<>>, parent |-> id_bap,
   dates |-> <<DateRange(Some(0), Some(1)), DateRange(Some(3), Some(4))>>,
   examples |-> <<in_ce>>],
  [id |-> id_n, name |-> s_bad, regex |-> <<>>, type |-> "trial",
   location |-> <<>>, jurisdiction |-> <<>>, parent |-> id_zz,
   dates |-> <<>>, examples |-> <<>>]
>>

RECURSIVE Ascending(_)
Ascending(S) ==
  IF S = {} THEN <<>>
  ELSE LET m == CHOOSE x \in S : \A y \in S : x <= y
       IN <<m>> \o Ascending(S \ {m})

Reverse(s) == [i \in 1..Len(s) |-> s[Len(s) + 1 - i]]

\* The choices of at most MaxCourts pool records with pairwise distinct ids.
PoolSelections ==
  {S \in SUBSET (1..Len(Pool)) :
     /\ Cardinality(S) \in 1..MaxCourts
     /\ \A i, j \in S : i # j => Pool[i].id # Pool[j].id}

\* The registry files: every selection, listed in pool order and in the
\* opposite order (so every pair of records occurs in both file orders).
Registries ==
  {[i \in 1..Len(ix) |-> Pool[ix[i]]] :
     ix \in {Ascending(S) : S \in PoolSelections}
            \cup {Reverse(Ascending(S)) : S \in PoolSelections}}

(***************************************************************************)
(* utils.ts: loader, dictionary, compiled patterns, predicates.            *)
(***************************************************************************)
\* data.find(c => c.id === id): index of the first record with that id, 0 if none.
FindIndex(data, id) ==
  LET hits == {i \in 1..Len(data) : data[i].id = id}
  IN IF hits = {} THEN 0 ELSE CHOOSE h \in hits : \A k \in hits : h <= k

\* One iteration of the parent inheritance loop, on the record at index i; the
\* parent is read from the list as the earlier iterations left it.
InheritOne(data, i) ==
  LET court == data[i]
      p == FindIndex(data, court.parent)
  IN IF Len(court.parent) = 0 \/ p = 0 THEN data
     ELSE [data EXCEPT ![i] =
             [court EXCEPT
                !.dates = IF Len(court.dates) = 0 THEN data[p].dates ELSE @,
                !.type = IF court.type = "" THEN data[p].type ELSE @,
                !.location = IF Len(court.location) = 0 THEN data[p].location ELSE @]]

RECURSIVE InheritFrom(_, _)
InheritFrom(data, i) ==
  IF i > Len(data) THEN data ELSE InheritFrom(InheritOne(data, i), i + 1)

\* loadCourtsDb, from the parsed records on.
loadCourtsDb(json) == InheritFrom(json, 1)

\* makeCourtDictionary: a later record with the same id overwrites an earlier one.
makeCourtDictionary(cs) ==
  [id \in {cs[i].id : i \in 1..Len(cs)} |->
     cs[CHOOSE i \in 1..Len(cs) :
          cs[i].id = id /\ \A j \in 1..Len(cs) : cs[j].id = id => j <= i]]

RECURSIVE CompileAll_StopAtFailure(_)
\* Mutation: the first pattern that fails to compile ends the record's loop.
CompileAll_StopAtFailure(patterns) ==
  IF Len(patterns) = 0 \/ CompileFails(Head(patterns)) THEN <<>>
  ELSE <<CompilePattern(Head(patterns))>> \o CompileAll_StopAtFailure(Tail(patterns))

RECURSIVE CompileAll(_)
\* The inner loop of gatherRegexes: a pattern that fails to compile is dropped.
CompileAll(patterns) ==
  IF Len(patterns) = 0 THEN <<>>
  ELSE (IF CompileFails(Head(patterns)) THEN <<>>
        ELSE <<CompilePattern(Head(patterns))>>) \o CompileAll(Tail(patterns))

\* The patterns of one record: its regex list followed by its name.
CourtRegexPatterns(court) == Append(court.regex, court.name)

gatherRegexes(cs) ==
  [id \in {cs[i].id : i \in 1..Len(cs)} |->
     CompileAll(CourtRegexPatterns(
       cs[CHOOSE i \in 1..Len(cs) :
            cs[i].id = id /\ \A j \in 1..Len(cs) : cs[j].id = id => j <= i]))]

s_bap == <<"b", "a", "p">>
s_bank == <<"b", "a", "n", "k">>
s_bankruptcy == <<"b", "a", "n", "k", "r", "u", "p", "t", "c", "y">>

isBankruptcyCourt(court) ==
  \/ includes(court.id, s_bap)
  \/ includes(court.id, s_bank)
  \/ includes(toLowerCase(court.name), s_bankruptcy)

\* Mutation: the location filter accepts every record.
matchesLocation_Always(court, location) == TRUE

\* Mutation: the location is compared as typed, not lowercased.
matchesLocation_CaseSensitive(court, location) ==
  IF Len(location) = 0 THEN TRUE
  ELSE \/ Len(court.location) > 0 /\ includes(toLowerCase(court.location), location)
       \/ includes(toLowerCase(court.name), location)
       \/ Len(court.jurisdiction) > 0
            /\ includes(toLowerCase(court.jurisdiction), location)

matchesLocation(court, location) ==
  IF Len(location) = 0 THEN TRUE
  ELSE LET locationLower == toLowerCase(location)
       IN \/ Len(court.location) > 0 /\ includes(toLowerCase(court.location), locationLower)
          \/ includes(toLowerCase(court.name), locationLower)
          \/ Len(court.jurisdiction) > 0
               /\ includes(toLowerCase(court.jurisdiction), locationLower)

\* Mutation: the end bound of a range is excluded.
RangeActive_ExclusiveEnd(dateRange, date) ==
  LET startDate == dateRange.start
      endDate == dateRange.end
  IN \/ IsNone(startDate) /\ IsNone(endDate)
     \/ IsNone(startDate) /\ ~IsNone(endDate) /\ date < Val(endDate)
     \/ ~IsNone(startDate) /\ IsNone(endDate) /\ date >= Val(startDate)
     \/ ~IsNone(startDate) /\ ~IsNone(endDate)
          /\ date >= Val(startDate) /\ date < Val(endDate)

\* One range of isCourtActiveOnDate; new Date(text) is the point in time the
\* text denotes, a date compares by its point in time.
RangeActive(dateRange, date) ==
  LET startDate == dateRange.start
      endDate == dateRange.end
  IN \/ IsNone(startDate) /\ IsNone(endDate)
     \/ IsNone(startDate) /\ ~IsNone(endDate) /\ date <= Val(endDate)
     \/ ~IsNone(startDate) /\ IsNone(endDate) /\ date >= Val(startDate)
     \/ ~IsNone(startDate) /\ ~IsNone(endDate)
          /\ date >= Val(startDate) /\ date <= Val(endDate)

isCourtActiveOnDate(court, date) ==
  \E i \in 1..Len(court.dates) : RangeActive(court.dates[i], date)

(***************************************************************************)
(* index.ts: the query pipeline, as functions of the cached structures.    *)
(***************************************************************************)
Bankruptcies == {None, Some(TRUE), Some(FALSE)}
Locations == {<<>>, <<"F">>, <<"4">>}
Dates == {None} \cup {Some(d) : d \in 0..MaxDate}

\* Mutation: an unspecified category is taken as "not a bankruptcy court".
Eligible_NonBankruptcyByDefault(court, bankruptcy, location) ==
  /\ (IF IsNone(bankruptcy) THEN FALSE ELSE Val(bankruptcy)) = isBankruptcyCourt(court)
  /\ Len(location) = 0 \/ matchesLocation(court, location)

\* The bankruptcy and location pre-filters of the scan loop.
Eligible(court, bankruptcy, location) ==
  /\ IsNone(bankruptcy) \/ Val(bankruptcy) = isBankruptcyCourt(court)
  /\ Len(location) = 0 \/ matchesLocation(court, location)

RECURSIVE FirstMatch(_, _)
\* The pattern loop: the first compiled pattern that matches makes the
\* candidate's matched text (match.fullMatch || normalizedInput).
FirstMatch(courtRegexes, normalizedInput) ==
  IF Len(courtRegexes) = 0 THEN None
  ELSE LET match == PcreMatch(Head(courtRegexes), normalizedInput)
       IN IF match.matched
          THEN Some(IF Len(match.fullMatch) > 0 THEN match.fullMatch
                    ELSE normalizedInput)
          ELSE FirstMatch(Tail(courtRegexes), normalizedInput)

\* compiledRegexes[court.id] || []
RegexesOf(compiledRegexes, id) ==
  IF id \in DOMAIN compiledRegexes THEN compiledRegexes[id] ELSE <<>>

RECURSIVE EveryMatch(_, _, _)
\* The pattern loop without its break: one candidate per matching pattern.
EveryMatch(courtId, courtRegexes, normalizedInput) ==
  IF Len(courtRegexes) = 0 THEN <<>>
  ELSE LET match == PcreMatch(Head(courtRegexes), normalizedInput)
       IN (IF match.matched
           THEN <<[courtId |-> courtId,
                   matchedText |-> IF Len(match.fullMatch) > 0 THEN match.fullMatch
                                   ELSE normalizedInput]>>
           ELSE <<>>)
          \o EveryMatch(courtId, Tail(courtRegexes), normalizedInput)

RECURSIVE ScanCourts_NoBreak(_, _, _, _, _, _)
\* Mutation: the pattern loop goes on after a match.
ScanCourts_NoBreak(allCourts, compiledRegexes, normalizedInput, bankruptcy, location, allowPartialMatches) ==
  IF Len(allCourts) = 0 THEN <<>>
  ELSE LET court == Head(allCourts)
       IN (IF Eligible(court, bankruptcy, location)
           THEN EveryMatch(court.id, RegexesOf(compiledRegexes, court.id),
                           normalizedInput)
           ELSE <<>>)
          \o ScanCourts_NoBreak(Tail(allCourts), compiledRegexes, normalizedInput,
                                bankruptcy, location, allowPartialMatches)

RECURSIVE ScanCourts(_, _, _, _, _, _)
\* The loop over allCourts of findCourtIdsByName; allowPartialMatches is a
\* parameter the loop never reads.
ScanCourts(allCourts, compiledRegexes, normalizedInput, bankruptcy, location, allowPartialMatches) ==
  IF Len(allCourts) = 0 THEN <<>>
  ELSE LET court == Head(allCourts)
           m == IF Eligible(court, bankruptcy, location)
                THEN FirstMatch(RegexesOf(compiledRegexes, court.id), normalizedInput)
                ELSE None
       IN (IF IsNone(m) THEN <<>>
           ELSE <<[courtId |-> court.id, matchedText |-> Val(m)]>>)
          \o ScanCourts(Tail(allCourts), compiledRegexes, normalizedInput,
                        bankruptcy, location, allowPartialMatches)

\* court?.parent of the records of the matches, as the set parentIds.
ParentIds(matches, dict) ==
  {dict[matches[i].courtId].parent :
     i \in {k \in 1..Len(matches) :
              /\ matches[k].courtId \in DOMAIN dict
              /\ Len(dict[matches[k].courtId].parent) > 0}}

\* Mutation: parent suppression removes nothing.
reduceCourtMatches_KeepAll(matches, dict) == matches

\* Mutation: parent suppression without the fallback to the original list.
reduceCourtMatches_NoFallback(matches, dict) ==
  IF Len(matches) <= 1 THEN matches
  ELSE SelectSeq2(matches, {i \in 1..Len(matches) :
                              matches[i].courtId \notin ParentIds(matches, dict)})

reduceCourtMatches(matches, dict) ==
  IF Len(matches) <= 1 THEN matches
  ELSE LET parentIds == ParentIds(matches, dict)
           reducedList ==
             SelectSeq2(matches, {i \in 1..Len(matches) :
                                    matches[i].courtId \notin parentIds})
       IN IF Len(reducedList) > 0 THEN reducedList ELSE matches

\* Mutation: the comparison otherStr !== str is left out.
IsSubstring_NonStrict(str, matchedStrings) ==
  \E k \in 1..Len(matchedStrings) : includes(matchedStrings[k], str)

\* otherStr !== str && otherStr.includes(str), for some matched string.
IsSubstring(str, matchedStrings) ==
  \E k \in 1..Len(matchedStrings) :
    matchedStrings[k] # str /\ includes(matchedStrings[k], str)

filterSubstringMatches(matches) ==
  IF Len(matches) <= 1 THEN matches
  ELSE LET matchedStrings == [i \in 1..Len(matches) |-> matches[i].matchedText]
           filteredStrings == {matchedStrings[i] :
                                 i \in {k \in 1..Len(matches) :
                                          ~IsSubstring(matchedStrings[k], matchedStrings)}}
       IN SelectSeq2(matches, {i \in 1..Len(matches) :
                                 matches[i].matchedText \in filteredStrings})

CourtIds(matches) == [i \in 1..Len(matches) |-> matches[i].courtId]

\* The dictionary is an object literal: a name it does not hold itself is
\* looked up in Object.prototype ("constructor" stands for its members:
\* toString, valueOf, hasOwnProperty, __proto__, ...).
ObjectPrototypeNames == {id_constructor}

\* What Object.prototype holds under such a name: a truthy value that is no
\* court record (it has no id, name, parent or dates).
InheritedMember(name) == [inherited |-> name]

\* dict[courtId]: None is undefined.
DictGet(dict, courtId) ==
  IF courtId \in DOMAIN dict THEN Some(dict[courtId])
  ELSE IF courtId \in ObjectPrototypeNames THEN Some(InheritedMember(courtId))
  ELSE None

\* The callback of a filter raises a TypeError on some id of the list: the
\* value found is truthy and is not a record, so isCourtActiveOnDate iterates
\* over its undefined dates and isBankruptcyCourt calls includes on its
\* undefined id.
CallbackThrows(courtIds, dict) ==
  \E i \in 1..Len(courtIds) :
    courtIds[i] \notin DOMAIN dict /\ courtIds[i] \in ObjectPrototypeNames

\* The filter callback of filterCourtsByDate, for a date that is given.
DateKeeps(dict, courtId, date) ==
  courtId \in DOMAIN dict /\ isCourtActiveOnDate(dict[courtId], date)

\* Mutation: when no id is active the list is returned as it came (the
\* fallback of reduceCourtMatches, applied to the date filter).
DateFiltered_Fallback(courtIds, dict, date) ==
  LET kept == SelectSeq2(courtIds, {i \in 1..Len(courtIds) :
                                      DateKeeps(dict, courtIds[i], date)})
  IN IF Len(kept) > 0 THEN kept ELSE courtIds

DateFiltered(courtIds, dict, date) ==
  SelectSeq2(courtIds, {i \in 1..Len(courtIds) : DateKeeps(dict, courtIds[i], date)})

\* The filter callback of filterCourtsByBankruptcy, for a category that is given.
BankruptcyKeeps(dict, courtId, bankruptcy) ==
  courtId \in DOMAIN dict /\ isBankruptcyCourt(dict[courtId]) = bankruptcy

BankruptcyFiltered(courtIds, dict, bankruptcy) ==
  SelectSeq2(courtIds, {i \in 1..Len(courtIds) :
                          BankruptcyKeeps(dict, courtIds[i], bankruptcy)})

(***************************************************************************)
(* The module state and the lazy accessors.                                *)
(***************************************************************************)
Calls == 1..MaxCalls

IdleCall == [pc |-> "idle"]

IdLists == {<<>>, <<id_ci, id_c4, id_g>>, <<id_g, id_zz, id_t, id_bap>>,
            <<id_n, id_t, id_ci, id_t>>, <<id_ci, id_constructor>>}

\* The call a run makes: its name and arguments.
FindCourtRequests ==
  [op : {"findCourt"}, courtStr : Inputs, bankruptcy : Bankruptcies,
   location : Locations, allowPartialMatches : BOOLEAN, date : Dates]

FilterByDateRequests == [op : {"filterCourtsByDate"}, courtIds : IdLists, date : Dates]

Requests == FindCourtRequests \cup FilterByDateRequests

\* Two filter calls in a row: the filter the request names on the caller's id
\* list, then the other filter on what the first returned.
FilterRequests ==
  [op : {"filterCourtsByDate", "filterCourtsByBankruptcy"}, courtIds : IdLists,
   date : Dates, bankruptcy : Bankruptcies]

FindCourtByIdRequests ==
  [op : {"findCourtById"}, courtId : {id_ci, id_g, id_zz, id_constructor}]

InitCaches ==
  /\ courts = None
  /\ courtDict = None
  /\ regexes = None
  /\ loadCount = 0
  /\ dictCount = 0
  /\ gatherCount = 0

Init ==
  /\ courtsJson \in {Some(r) : r \in Registries}
  /\ req \in Requests
  /\ InitCaches
  /\ calls = [c \in Calls |-> IdleCall]
  /\ last = [op |-> "none"]

\* The file courts.json is None when reading or parsing it throws (the file
\* is missing or is not JSON), otherwise Some(records).
\* getCourts() throws: nothing is cached and loadCourtsDb() raises.
GetCourtsThrows == IsNone(courts) /\ IsNone(courtsJson)

\* Mutation: the inheritance pass runs again over the cached records.
CourtsNow_Reinherit ==
  loadCourtsDb(IF IsNone(courts) THEN Val(courtsJson) ELSE Val(courts))

\* getCourts(): the value returned, whether or not this call loads it.
CourtsNow == IF IsNone(courts) THEN loadCourtsDb(Val(courtsJson)) ELSE Val(courts)

\* getCourtDict(): the value returned.
CourtDictNow == IF IsNone(courtDict) THEN makeCourtDictionary(CourtsNow) ELSE Val(courtDict)

\* getRegexes(), awaited with no other call in flight: the value returned.
RegexesNow == IF IsNone(regexes) THEN gatherRegexes(CourtsNow) ELSE Val(regexes)

\* The effect of getCourts() on the module state.
GetCourts ==
  /\ courts' = Some(CourtsNow)
  /\ loadCount' = IF IsNone(courts) THEN loadCount + 1 ELSE loadCount

\* The effect of getCourtDict() when `used` says the call is made at all.
GetCourtDictIf(used) ==
  /\ courtDict' = IF used THEN Some(CourtDictNow) ELSE courtDict
  /\ dictCount' = IF used /\ IsNone(courtDict) THEN dictCount + 1 ELSE dictCount

\* Mutation: substring suppression on all candidates, parent suppression on
\* what it leaves.
NameSearch_SubstringFirst(cs, rx, dict, courtStr, bankruptcy, location, allowPartialMatches) ==
  LET normalizedInput == NormalizeInput(courtStr)
      matches == ScanCourts(cs, rx, normalizedInput, bankruptcy, location,
                            allowPartialMatches)
      filteredMatches == reduceCourtMatches(filterSubstringMatches(matches), dict)
  IN [normalizedInput |-> normalizedInput, matches |-> matches,
      reducedMatches |-> reduceCourtMatches(matches, dict),
      filteredMatches |-> filteredMatches, ids |-> CourtIds(filteredMatches)]

\* The whole of findCourtIdsByName on the cached structures: the candidates of
\* the scan, the two reductions, the ids.
NameSearch(cs, rx, dict, courtStr, bankruptcy, location, allowPartialMatches) ==
  LET normalizedInput == NormalizeInput(courtStr)
      matches == ScanCourts(cs, rx, normalizedInput, bankruptcy, location,
                            allowPartialMatches)
      reducedMatches == reduceCourtMatches(matches, dict)
      filteredMatches == filterSubstringMatches(reducedMatches)
  IN [normalizedInput |-> normalizedInput, matches |-> matches,
      reducedMatches |-> reducedMatches, filteredMatches |-> filteredMatches,
      ids |-> CourtIds(filteredMatches)]

\* The effect of getCourtDict() on the module state.
GetCourtDict ==
  /\ GetCourtDictIf(TRUE)
  /\ IF IsNone(courtDict) THEN GetCourts ELSE UNCHANGED <<courts, loadCount>>

\* getCourtDict() throws: the dictionary is not cached and getCourts() throws.
GetCourtDictThrows == IsNone(courtDict) /\ GetCourtsThrows

\* Mutation: the failed load is caught and an empty registry is cached.
LoadErrorIn_CachesEmpty(call) ==
  /\ loadCount < MaxCalls
  /\ loadCount' = loadCount + 1
  /\ courts' = Some(<<>>)
  /\ last' = [op |-> "threw", call |-> call, attempt |-> loadCount + 1]
  /\ UNCHANGED <<courtDict, regexes, dictCount, gatherCount>>

\* A call ends with the exception loadCourtsDb() raised inside getCourts():
\* nothing is cached, so the next call that needs the registry loads again.
LoadErrorIn(call) ==
  /\ loadCount < MaxCalls
  /\ loadCount' = loadCount + 1
  /\ last' = [op |-> "threw", call |-> call, attempt |-> loadCount + 1]
  /\ UNCHANGED <<courts, courtDict, regexes, dictCount, gatherCount>>

\* Mutation: the date filter is applied to the candidates, before the
\* reductions.
FindCourt_DateFirst ==
  /\ req.op = "findCourt"
  /\ IF GetCourtsThrows THEN LoadErrorIn("findCourt")
     ELSE
     LET normalizedInput == NormalizeInput(req.courtStr)
         matches == ScanCourts(CourtsNow, RegexesNow, normalizedInput,
                               req.bankruptcy, req.location, req.allowPartialMatches)
         dated == IF IsNone(req.date) THEN matches
                  ELSE SelectSeq2(matches, {i \in 1..Len(matches) :
                         DateKeeps(CourtDictNow, matches[i].courtId, Val(req.date))})
         reducedMatches == reduceCourtMatches(dated, CourtDictNow)
         filteredMatches == filterSubstringMatches(reducedMatches)
     IN /\ GetCourts
        /\ regexes' = Some(RegexesNow)
        /\ gatherCount' = IF IsNone(regexes) THEN gatherCount + 1 ELSE gatherCount
        /\ GetCourtDictIf(Len(matches) > 1 \/ ~IsNone(req.date))
        /\ last' = [op |-> "findCourt", normalizedInput |-> normalizedInput,
                    matches |-> matches, reducedMatches |-> reducedMatches,
                    filteredMatches |-> filteredMatches,
                    result |-> CourtIds(filteredMatches)]
  /\ UNCHANGED <<courtsJson, req, calls>>

\* What a call leaves when the callback of its filter raised a TypeError.
TypeErrorIn(call, courtIds) == [op |-> "typeError", call |-> call, courtIds |-> courtIds]

\* findCourt(courtStr, {bankruptcy, location, allowPartialMatches, date}),
\* awaited to its end before anything else runs.
FindCourt ==
  /\ req.op = "findCourt"
  /\ IF GetCourtsThrows THEN LoadErrorIn("findCourt")
     ELSE
     LET r == NameSearch(CourtsNow, RegexesNow, CourtDictNow, req.courtStr,
                         req.bankruptcy, req.location, req.allowPartialMatches)
         result == IF IsNone(req.date) THEN r.ids
                   ELSE DateFiltered(r.ids, CourtDictNow, Val(req.date))
     IN /\ GetCourts
        /\ regexes' = Some(RegexesNow)
        /\ gatherCount' = IF IsNone(regexes) THEN gatherCount + 1 ELSE gatherCount
        /\ GetCourtDictIf(Len(r.matches) > 1 \/ ~IsNone(req.date))
        /\ last' = [op |-> "findCourt", normalizedInput |-> r.normalizedInput,
                    matches |-> r.matches, reducedMatches |-> r.reducedMatches,
                    filteredMatches |-> r.filteredMatches, result |-> result]
  /\ UNCHANGED <<courtsJson, req, calls>>

\* filterCourtsByDate(courtIds, date): on the caller's list when the request
\* names this filter, on the result of the other filter when it follows it.
FilterCourtsByDate ==
  /\ \/ req.op = "filterCourtsByDate"
     \/ req.op = "filterCourtsByBankruptcy" /\ last.op = "filterCourtsByBankruptcy"
  /\ LET courtIds == IF req.op = "filterCourtsByDate" THEN req.courtIds
                     ELSE last.result
     IN IF IsNone(req.date)
        THEN /\ last' = [op |-> "filterCourtsByDate", courtIds |-> courtIds,
                         result |-> courtIds]
             /\ UNCHANGED <<courts, loadCount, courtDict, dictCount>>
        ELSE IF GetCourtDictThrows THEN LoadErrorIn("filterCourtsByDate")
        ELSE /\ GetCourtDict
             /\ last' = IF CallbackThrows(courtIds, CourtDictNow)
                        THEN TypeErrorIn("filterCourtsByDate", courtIds)
                        ELSE [op |-> "filterCourtsByDate", courtIds |-> courtIds,
                              result |-> DateFiltered(courtIds, CourtDictNow,
                                                      Val(req.date))]
  /\ UNCHANGED <<courtsJson, req, regexes, gatherCount, calls>>

\* filterCourtsByBankruptcy(courtIds, bankruptcy)
FilterCourtsByBankruptcy ==
  /\ \/ req.op = "filterCourtsByBankruptcy"
     \/ req.op = "filterCourtsByDate" /\ last.op = "filterCourtsByDate"
  /\ LET courtIds == IF req.op = "filterCourtsByBankruptcy" THEN req.courtIds
                     ELSE last.result
     IN IF IsNone(req.bankruptcy)
        THEN /\ last' = [op |-> "filterCourtsByBankruptcy", courtIds |-> courtIds,
                         result |-> courtIds]
             /\ UNCHANGED <<courts, loadCount, courtDict, dictCount>>
        ELSE IF GetCourtDictThrows THEN LoadErrorIn("filterCourtsByBankruptcy")
        ELSE /\ GetCourtDict
             /\ last' = IF CallbackThrows(courtIds, CourtDictNow)
                        THEN TypeErrorIn("filterCourtsByBankruptcy", courtIds)
                        ELSE [op |-> "filterCourtsByBankruptcy", courtIds |-> courtIds,
                              result |-> BankruptcyFiltered(courtIds, CourtDictNow,
                                                            Val(req.bankruptcy))]
  /\ UNCHANGED <<courtsJson, req, regexes, gatherCount, calls>>

\* findCourtById(courtId)
FindCourtById ==
  /\ req.op = "findCourtById"
  /\ IF GetCourtDictThrows THEN LoadErrorIn("findCourtById")
     ELSE /\ GetCourtDict
          /\ last' = [op |-> "findCourtById",
                      result |-> LET court == DictGet(CourtDictNow, req.courtId)
                                 IN IF IsNone(court) THEN <<>> ELSE <<Val(court)>>]
  /\ UNCHANGED <<courtsJson, req, regexes, gatherCount, calls>>

Next ==
  \/ FindCourt
  \/ FilterCourtsByDate

Spec == Init /\ [][Next]_vars

(***************************************************************************)
(* The filters and the lookup, also on a registry file that cannot be      *)
(* loaded.                                                                 *)
(***************************************************************************)
\* The registry files of these runs: the selections in pool order.
QueryRegistries ==
  {[i \in 1..Len(ix) |-> Pool[ix[i]]] : ix \in {Ascending(S) : S \in PoolSelections}}

QueryRequests ==
  FilterRequests \cup FindCourtByIdRequests
    \cup {r \in FindCourtRequests : ~r.allowPartialMatches /\ Len(r.location) = 0}

InitQueries ==
  /\ courtsJson \in {None} \cup {Some(r) : r \in QueryRegistries}
  /\ req \in QueryRequests
  /\ InitCaches
  /\ calls = [c \in Calls |-> IdleCall]
  /\ last = [op |-> "none"]

NextQueries ==
  \/ FindCourt
  \/ FilterCourtsByDate
  \/ FilterCourtsByBankruptcy
  \/ FindCourtById

SpecQueries == InitQueries /\ [][NextQueries]_vars

(***************************************************************************)
(* Calls in flight.  findCourt is an async function: a call runs until     *)
(* its next await and resumes in a later microtask, so the steps of        *)
(* several calls interleave at the awaits.                                 *)
(***************************************************************************)
AsyncRegistries ==
  {<<Pool[1], Pool[3]>>, <<Pool[7], Pool[6]>>, <<Pool[4], Pool[3], Pool[2]>>}

AsyncRequests ==
  {[courtStr |-> in_ce, bankruptcy |-> None, location |-> <<>>,
    allowPartialMatches |-> FALSE, date |-> None],
   [courtStr |-> in_4ce, bankruptcy |-> Some(FALSE), location |-> <<>>,
    allowPartialMatches |-> FALSE, date |-> Some(2)]}

\* The synchronous calls made between the steps of the async calls.
AsyncSyncRequests ==
  {[op |-> "filterCourtsByDate", courtIds |-> <<id_ci, id_c4, id_g>>,
    date |-> Some(2), bankruptcy |-> Some(FALSE)],
   [op |-> "filterCourtsByBankruptcy", courtIds |-> <<id_n, id_t, id_ci, id_t>>,
    date |-> None, bankruptcy |-> Some(FALSE)],
   [op |-> "findCourtById", courtId |-> id_g]}

InitAsync ==
  /\ courtsJson \in {None} \cup {Some(r) : r \in AsyncRegistries}
  /\ req \in AsyncSyncRequests
  /\ InitCaches
  /\ calls = [c \in Calls |-> IdleCall]
  /\ last = [op |-> "none"]

\* findCourt(...) is called (by a caller that has made no call yet or whose
\* previous call has returned): findCourtIdsByName runs into getRegexes().  With
\* the cache filled the value is returned (and awaited); otherwise
\* gatherRegexes(getCourts()) starts and runs up to its first await, the
\* compilation of the first pattern of the first record.
StartCall(c, args) ==
  /\ calls[c].pc \in {"idle", "done"}
  /\ IF IsNone(regexes) /\ GetCourtsThrows
     THEN /\ loadCount < MaxCalls
          /\ loadCount' = loadCount + 1
          /\ calls' = [calls EXCEPT ![c] = [pc |-> "rejected", args |-> args]]
          /\ UNCHANGED <<courts, gatherCount>>
     ELSE IF IsNone(regexes)
     THEN /\ GetCourts
          /\ gatherCount' = gatherCount + 1
          /\ calls' = [calls EXCEPT ![c] =
               IF Len(CourtsNow) = 0
               THEN [pc |-> "gathered", args |-> args, compiled |-> <<>>]
               ELSE [pc |-> "compiling", args |-> args, cs |-> CourtsNow,
                     ci |-> 1, pi |-> 1, cur |-> <<>>, compiled |-> <<>>]]
     ELSE /\ calls' = [calls EXCEPT ![c] =
               [pc |-> "gotRegexes", args |-> args, compiledRegexes |-> Val(regexes)]]
          /\ UNCHANGED <<courts, loadCount, gatherCount>>
  /\ UNCHANGED <<courtsJson, req, courtDict, regexes, dictCount, last>>

\* Mutation: a record none of whose patterns compiled gets no entry.
MapPut_SkipEmpty(map, id, list) ==
  IF list = <<>> THEN map
  ELSE [k \in (DOMAIN map) \cup {id} |-> IF k = id THEN list ELSE map[k]]

\* compiledRegexes[id] = list, on a map held as a function.
MapPut(map, id, list) ==
  [k \in (DOMAIN map) \cup {id} |-> IF k = id THEN list ELSE map[k]]

\* Mutation: the map under construction is published in regexes at once.
CompileStep_PublishPartial(c) ==
  /\ calls[c].pc = "compiling"
  /\ LET g == calls[c]
         patterns == CourtRegexPatterns(g.cs[g.ci])
         pattern == patterns[g.pi]
         cur == IF CompileFails(pattern) THEN g.cur
                ELSE Append(g.cur, CompilePattern(pattern))
         compiled == IF g.pi < Len(patterns) THEN g.compiled
                     ELSE MapPut(g.compiled, g.cs[g.ci].id, cur)
     IN /\ regexes' = Some(compiled)
        /\ calls' = [calls EXCEPT ![c] =
             IF g.pi < Len(patterns)
             THEN [g EXCEPT !.pi = g.pi + 1, !.cur = cur]
             ELSE IF g.ci < Len(g.cs)
             THEN [g EXCEPT !.ci = g.ci + 1, !.pi = 1, !.cur = <<>>,
                            !.compiled = compiled]
             ELSE [pc |-> "gathered", args |-> g.args, compiled |-> compiled]]
  /\ UNCHANGED <<courtsJson, req, courts, courtDict, loadCount,
                 dictCount, gatherCount, last>>

\* gatherRegexes resumes after one await compileRegex(...) and runs to the next.
CompileStep(c) ==
  /\ calls[c].pc = "compiling"
  /\ LET g == calls[c]
         patterns == CourtRegexPatterns(g.cs[g.ci])
         pattern == patterns[g.pi]
         cur == IF CompileFails(pattern) THEN g.cur
                ELSE Append(g.cur, CompilePattern(pattern))
     IN calls' = [calls EXCEPT ![c] =
          IF g.pi < Len(patterns)
          THEN [g EXCEPT !.pi = g.pi + 1, !.cur = cur]
          ELSE IF g.ci < Len(g.cs)
          THEN [g EXCEPT !.ci = g.ci + 1, !.pi = 1, !.cur = <<>>,
                         !.compiled = MapPut(g.compiled, g.cs[g.ci].id, cur)]
          ELSE [pc |-> "gathered", args |-> g.args,
                compiled |-> MapPut(g.compiled, g.cs[g.ci].id, cur)]]
  /\ UNCHANGED <<courtsJson, req, courts, courtDict, regexes, loadCount,
                 dictCount, gatherCount, last>>

\* Mutation: a call that finds the cache filled by another call clears it.
AssignRegexes_ClearWhenSet(c) ==
  /\ calls[c].pc = "gathered"
  /\ regexes' = IF IsNone(regexes) THEN Some(calls[c].compiled) ELSE None
  /\ calls' = [calls EXCEPT ![c] =
       [pc |-> "gotRegexes", args |-> calls[c].args,
        compiledRegexes |-> calls[c].compiled]]
  /\ UNCHANGED <<courtsJson, req, courts, courtDict, loadCount, dictCount,
                 gatherCount, last>>

\* getRegexes resumes after await gatherRegexes(...): regexes = ...; return regexes.
AssignRegexes(c) ==
  /\ calls[c].pc = "gathered"
  /\ regexes' = Some(calls[c].compiled)
  /\ calls' = [calls EXCEPT ![c] =
       [pc |-> "gotRegexes", args |-> calls[c].args,
        compiledRegexes |-> calls[c].compiled]]
  /\ UNCHANGED <<courtsJson, req, courts, courtDict, loadCount, dictCount,
                 gatherCount, last>>

\* findCourtIdsByName resumes after await getRegexes(): the scan, and the body
\* of reduceCourtMatches up to the await of its result.
ScanStep(c) ==
  /\ calls[c].pc = "gotRegexes"
  /\ LET a == calls[c].args
         matches == ScanCourts(CourtsNow, calls[c].compiledRegexes,
                               NormalizeInput(a.courtStr), a.bankruptcy,
                               a.location, a.allowPartialMatches)
     IN /\ GetCourts
        /\ GetCourtDictIf(Len(matches) > 1)
        /\ calls' = [calls EXCEPT ![c] =
             [pc |-> "reduced", args |-> a, matches |-> matches,
              reducedMatches |-> reduceCourtMatches(matches, CourtDictNow)]]
  /\ UNCHANGED <<courtsJson, req, regexes, gatherCount, last>>

\* findCourtIdsByName resumes after await reduceCourtMatches(...) and returns.
ReturnIds(c) ==
  /\ calls[c].pc = "reduced"
  /\ calls' = [calls EXCEPT ![c] =
       [pc |-> "named", args |-> calls[c].args,
        ids |-> CourtIds(filterSubstringMatches(calls[c].reducedMatches))]]
  /\ UNCHANGED <<courtsJson, req, courts, courtDict, regexes, loadCount,
                 dictCount, gatherCount, last>>

\* findCourt resumes after await findCourtIdsByName(...): the date filter.
FinishCall(c) ==
  /\ calls[c].pc = "named"
  /\ LET a == calls[c].args
     IN /\ GetCourtDictIf(~IsNone(a.date))
        /\ IF ~IsNone(a.date) /\ IsNone(courtDict) THEN GetCourts
           ELSE UNCHANGED <<courts, loadCount>>
        /\ calls' = [calls EXCEPT ![c] =
             [pc |-> "done", args |-> a,
              result |-> IF IsNone(a.date) THEN calls[c].ids
                         ELSE DateFiltered(calls[c].ids, CourtDictNow, Val(a.date))]]
  /\ UNCHANGED <<courtsJson, req, regexes, gatherCount, last>>

\* The exported accessor courts() (getCourts).
CourtsAccessor ==
  /\ IF GetCourtsThrows THEN LoadErrorIn("courts")
     ELSE /\ GetCourts
          /\ UNCHANGED <<courtDict, regexes, dictCount, gatherCount, last>>
  /\ UNCHANGED <<courtsJson, req, calls>>

\* The exported accessor courtDict() (getCourtDict).
CourtDictAccessor ==
  /\ IF GetCourtDictThrows THEN LoadErrorIn("courtDict")
     ELSE /\ GetCourtDictIf(TRUE)
          /\ IF IsNone(courtDict) THEN GetCourts ELSE UNCHANGED <<courts, loadCount>>
          /\ UNCHANGED <<regexes, gatherCount, last>>
  /\ UNCHANGED <<courtsJson, req, calls>>

NextAsync ==
  \/ \E c \in Calls, args \in AsyncRequests : StartCall(c, args)
  \/ \E c \in Calls : CompileStep(c)
  \/ \E c \in Calls : AssignRegexes(c)
  \/ \E c \in Calls : ScanStep(c)
  \/ \E c \in Calls : ReturnIds(c)
  \/ \E c \in Calls : FinishCall(c)
  \/ CourtsAccessor
  \/ CourtDictAccessor
  \/ FilterCourtsByDate
  \/ FilterCourtsByBankruptcy
  \/ FindCourtById

SpecAsync == InitAsync /\ [][NextAsync]_vars

(***************************************************************************)
(* utils.ts: the template text of courts.json (ordinal ranges, variables,  *)
(* backslashes) as loadCourtsDb turns it into the strings of the records.  *)
(***************************************************************************)
ordinals == <<
  <<"f", "i", "r", "s", "t">>,
  <<"s", "e", "c", "o", "n", "d">>,
  <<"t", "h", "i", "r", "d">>,
  <<"f", "o", "u", "r", "t", "h">>,
  <<"f", "i", "f", "t", "h">>,
  <<"s", "i", "x", "t", "h">>,
  <<"s", "e", "v", "e", "n", "t", "h">>,
  <<"e", "i", "g", "h", "t", "h">>,
  <<"n", "i", "n", "e", "t", "h">>,
  <<"t", "e", "n", "t", "h">>,
  <<"e", "l", "e", "v", "e", "n", "t", "h">>,
  <<"t", "w", "e", "l", "f", "t", "h">>,
  <<"t", "h", "i", "r", "t", "e", "e", "n", "t", "h">>,
  <<"f", "o", "u", "r", "t", "e", "e", "n", "t", "h">>,
  <<"f", "i", "f", "t", "e", "e", "n", "t", "h">>,
  <<"s", "i", "x", "t", "e", "e", "n", "t", "h">>,
  <<"s", "e", "v", "e", "n", "t", "e", "e", "n", "t", "h">>,
  <<"e", "i", "g", "h", "t", "e", "e", "n", "t", "h">>,
  <<"n", "i", "n", "e", "t", "e", "e", "n", "t", "h">>,
  <<"t", "w", "e", "n", "t", "i", "e", "t", "h">>
>>

DigitChars == <<"0", "1", "2", "3", "4", "5", "6", "7", "8", "9">>

IsDigit(ch) == \E d \in 1..Len(DigitChars) : DigitChars[d] = ch

DigitValue(ch) == (CHOOSE d \in 1..Len(DigitChars) : DigitChars[d] = ch) - 1

RECURSIVE parseInt(_)
\* parseInt(digits, 10) of a string of decimal digits.
parseInt(digits) ==
  IF Len(digits) = 0 THEN 0
  ELSE Len(DigitChars) * parseInt(SubSeq(digits, 1, Len(digits) - 1))
       + DigitValue(digits[Len(digits)])

\* The character at index i, "" beyond the ends of the text.
CharAt(text, i) == IF i \in 1..Len(text) THEN text[i] ELSE ""

RECURSIVE DigitRun(_, _)
\* The number of consecutive digits from index i on (\d+ is greedy).
DigitRun(text, i) ==
  IF IsDigit(CharAt(text, i)) THEN 1 + DigitRun(text, i + 1) ELSE 0

\* /\$\{(\d+)-(\d+)\}/ tried at index i: the two groups and the length of the
\* match, length 0 when it does not match there.
OrdinalMatchAt(text, i) ==
  LET a == DigitRun(text, i + 2)
      dash == i + 2 + a
      b == DigitRun(text, dash + 1)
      close == dash + 1 + b
  IN IF /\ CharAt(text, i) = "$" /\ CharAt(text, i + 1) = "{"
        /\ a > 0 /\ CharAt(text, dash) = "-"
        /\ b > 0 /\ CharAt(text, close) = "}"
     THEN [len |-> close - i + 1, start |-> SubSeq(text, i + 2, dash - 1),
           end |-> SubSeq(text, dash + 1, close - 1)]
     ELSE [len |-> 0, start |-> <<>>, end |-> <<>>]

RECURSIVE OrdinalMatches(_, _)
\* courtsContent.match(/\$\{(\d+)-(\d+)\}/g): the matched strings, left to right.
OrdinalMatches(text, i) ==
  IF i > Len(text) THEN <<>>
  ELSE LET m == OrdinalMatchAt(text, i)
       IN IF m.len > 0
          THEN <<SubSeq(text, i, i + m.len - 1)>> \o OrdinalMatches(text, i + m.len)
          ELSE OrdinalMatches(text, i + 1)

\* Array.prototype.slice(start, end): a negative index counts from the end,
\* both indexes are clamped to the array.
slice(arr, start, end) ==
  LET rel(k) == IF k < 0 THEN (IF Len(arr) + k < 0 THEN 0 ELSE Len(arr) + k)
                ELSE (IF k > Len(arr) THEN Len(arr) ELSE k)
  IN SubSeq(arr, rel(start) + 1, rel(end))

RECURSIVE join(_, _)
join(strs, sep) ==
  IF Len(strs) = 0 THEN <<>>
  ELSE IF Len(strs) = 1 THEN strs[1]
  ELSE strs[1] \o sep \o join(Tail(strs), sep)

\* String.prototype.indexOf, 1-based; 0 when the string does not occur.
IndexOf(text, str) ==
  LET hits == {i \in 1..(Len(text) - Len(str) + 1) :
                 SubSeq(text, i, i + Len(str) - 1) = str}
  IN IF hits = {} THEN 0 ELSE CHOOSE h \in hits : \A k \in hits : h <= k

\* text.replace(str, replacement) with a string pattern: the first occurrence.
ReplaceFirst(text, str, replacement) ==
  LET i == IndexOf(text, str)
  IN IF i = 0 THEN text
     ELSE SubSeq(text, 1, i - 1) \o replacement \o SubSeq(text, i + Len(str), Len(text))

RECURSIVE ReplaceAll(_, _, _)
\* text.replace(new RegExp(escaped, 'g'), replacement): every occurrence, left
\* to right, the replacement not scanned again.
ReplaceAll(text, str, replacement) ==
  LET i == IndexOf(text, str)
  IN IF i = 0 THEN text
     ELSE SubSeq(text, 1, i - 1) \o replacement
          \o ReplaceAll(SubSeq(text, i + Len(str), Len(text)), str, replacement)

\* The body of the loop over the ordinal matches, up to the replacement.
OrdinalRegex(match) ==
  LET m == OrdinalMatchAt(match, 1)
      startNum == parseInt(m.start)
      endNum == parseInt(m.end)
      rangeOrdinals == slice(ordinals, startNum - 1, endNum)
  IN <<"(">> \o join(rangeOrdinals, <<"|">>) \o <<")">>

RECURSIVE ReplaceOrdinals(_, _)
ReplaceOrdinals(courtsContent, ordinalMatches) ==
  IF Len(ordinalMatches) = 0 THEN courtsContent
  ELSE ReplaceOrdinals(
         ReplaceFirst(courtsContent, Head(ordinalMatches),
                      OrdinalRegex(Head(ordinalMatches))),
         Tail(ordinalMatches))

\* loadCourtsDb, the ordinal handling.
ExpandOrdinals(courtsContent) ==
  ReplaceOrdinals(courtsContent, OrdinalMatches(courtsContent, 1))

\* The processed variables: name and value, in the order of Object.entries.
processedVariables == << [key |-> <<"v">>, value |-> <<"x", "y">>] >>

RECURSIVE SubstituteFrom(_, _)
\* loadCourtsDb, the loop over the processed variables.
SubstituteFrom(courtsContent, k) ==
  IF k > Len(processedVariables) THEN courtsContent
  ELSE SubstituteFrom(
         ReplaceAll(courtsContent,
                    <<"$", "{">> \o processedVariables[k].key \o <<"}">>,
                    processedVariables[k].value),
         k + 1)

RECURSIVE ConcatRange(_, _, _)
\* parts[lo] \o ... \o parts[hi], by halves.
ConcatRange(parts, lo, hi) ==
  IF lo > hi THEN <<>>
  ELSE IF lo = hi THEN parts[lo]
  ELSE LET mid == (lo + hi) \div 2
       IN ConcatRange(parts, lo, mid) \o ConcatRange(parts, mid + 1, hi)

\* courtsContent.replace(/(?<!\\)\\(?!\\)/g, '\\\\'): a backslash with no
\* backslash before or after it is doubled.
EscapeBackslashes(text) ==
  ConcatRange([i \in 1..Len(text) |->
                 IF /\ text[i] = "\\"
                    /\ CharAt(text, i - 1) # "\\"
                    /\ CharAt(text, i + 1) # "\\"
                 THEN <<"\\", "\\">> ELSE <<text[i]>>],
              1, Len(text))

RECURSIVE BackslashesBefore(_, _)
\* The number of consecutive backslashes that end just before index i.
BackslashesBefore(text, i) ==
  IF CharAt(text, i - 1) = "\\" THEN 1 + BackslashesBefore(text, i - 1) ELSE 0

\* JSON.parse of the inside of a string literal: \\ is one backslash (the
\* second backslash of each pair goes).
JsonString(text) ==
  ConcatRange([i \in 1..Len(text) |->
                 IF text[i] = "\\" /\ BackslashesBefore(text, i) % 2 = 1
                 THEN <<>> ELSE <<text[i]>>],
              1, Len(text))

\* A string of a record as loadCourtsDb reads it out of the file text.
ExpandText(text) ==
  JsonString(EscapeBackslashes(SubstituteFrom(ExpandOrdinals(text), 1)))

\* The records of a file whose patterns and names are templates.
ExpandRecords(json) ==
  [i \in 1..Len(json) |->
     [json[i] EXCEPT !.name = ExpandText(@),
                     !.regex = [k \in 1..Len(@) |-> ExpandText(@[k])]]]

\* The pieces a pattern template is written from: a literal, a regex escape,
\* a variable reference, an ordinal range.
MaxPieces == 2
RangeEnds == {0, 1, 2, 3, Len(ordinals), Len(ordinals) + 1}
Pieces ==
  {[kind |-> "text", text |-> <<"a">>], [kind |-> "text", text |-> <<"\\", "d">>],
   [kind |-> "var", name |-> <<"v">>]}
  \cup {[kind |-> "ordinals", start |-> n, end |-> m] : n \in RangeEnds, m \in RangeEnds}

\* The decimal digits of a number below 100.
DigitsOf(n) ==
  IF n < Len(DigitChars) THEN <<DigitChars[n + 1]>>
  ELSE <<DigitChars[(n \div Len(DigitChars)) + 1], DigitChars[(n % Len(DigitChars)) + 1]>>

\* The text of a piece in the file.
Written(piece) ==
  CASE piece.kind = "text" -> piece.text
    [] piece.kind = "var" -> <<"$", "{">> \o piece.name \o <<"}">>
    [] piece.kind = "ordinals" ->
         <<"$", "{">> \o DigitsOf(piece.start) \o <<"-">> \o DigitsOf(piece.end) \o <<"}">>

RECURSIVE WrittenAll(_)
WrittenAll(pieces) ==
  IF Len(pieces) = 0 THEN <<>> ELSE Written(Head(pieces)) \o WrittenAll(Tail(pieces))

Templates == UNION {[1..n -> Pieces] : n \in 0..MaxPieces}

\* A file of one record whose first pattern is the template.
TemplateFile(pieces) ==
  << [id |-> id_ci, name |-> s_Ce, regex |-> <<WrittenAll(pieces), s_ce>>,
      type |-> "trial", location |-> s_fl, jurisdiction |-> <<>>, parent |-> <<>>,
      dates |-> <<DateRange(None, None)>>, examples |-> <<>>] >>

InitTemplates ==
  /\ req \in [op : {"courts"}, pieces : Templates]
  /\ courtsJson = Some(TemplateFile(req.pieces))
  /\ InitCaches
  /\ calls = [c \in Calls |-> IdleCall]
  /\ last = [op |-> "none"]

\* The accessor courts() on a file with templates: getCourts, and in it the
\* whole of loadCourtsDb when the registry is not loaded yet.
CourtsOfTemplates ==
  /\ req.op = "courts"
  /\ LET now == IF IsNone(courts) THEN loadCourtsDb(ExpandRecords(Val(courtsJson)))
                ELSE Val(courts)
     IN /\ courts' = Some(now)
        /\ last' = [op |-> "courts", result |-> now]
  /\ loadCount' = IF IsNone(courts) THEN loadCount + 1 ELSE loadCount
  /\ UNCHANGED <<courtsJson, req, courtDict, regexes, dictCount, gatherCount, calls>>

NextTemplates == CourtsOfTemplates

SpecTemplates == InitTemplates /\ [][NextTemplates]_vars

(***************************************************************************)
(* Properties.  The helpers below restate, independently of the operators  *)
(* that model the code, what the statements are about.                     *)
(***************************************************************************)
Searched == last.op = "findCourt"

\* The loaded record with this id.
TheCourt(id) == CHOOSE c \in Range(Val(courts)) : c.id = id

HasCourt(id) == \E c \in Range(Val(courts)) : c.id = id

CandidateIds == {last.matches[i].courtId : i \in 1..Len(last.matches)}

\* The matched text the candidate of this record carries.
TextOf(id) ==
  last.matches[CHOOSE i \in 1..Len(last.matches) : last.matches[i].courtId = id].matchedText

\* The ids findCourtIdsByName returns (findCourt's result before the date filter).
ReturnedByName == {last.filteredMatches[i].courtId : i \in 1..Len(last.filteredMatches)}

Returned == Range(last.result)

\* a occurs in b and is not b.
StrictlyInside(a, b) ==
  a # b /\ \E i \in 1..(Len(b) - Len(a) + 1) : SubSeq(b, i, i + Len(a) - 1) = a

RECURSIVE Ancestors(_, _)
\* The ids reached from id by at most n parent links.
Ancestors(id, n) ==
  IF n = 0 \/ ~HasCourt(id) \/ Len(TheCourt(id).parent) = 0 THEN {}
  ELSE {TheCourt(id).parent} \cup Ancestors(TheCourt(id).parent, n - 1)

ParentLinksAcyclic ==
  \A c \in Range(Val(courts)) : c.id \notin Ancestors(c.id, Len(Val(courts)))

IsParentOfCandidate(id) == \E k \in CandidateIds : TheCourt(k).parent = id

\* The candidates parent suppression leaves when it removes anything at all.
NotSuppressedParents == {k \in CandidateIds : ~IsParentOfCandidate(k)}

\* C1 as stated: with acyclic parent links, whenever a record and its parent are
\* both candidates, the ids returned exclude the parent and include the child.
C1_Original ==
  (Searched /\ IsNone(req.date) /\ ParentLinksAcyclic) =>
    \A c, p \in CandidateIds :
      TheCourt(c).parent = p => (p \notin Returned /\ c \in Returned)

\* C1 amended: with acyclic parent links, whenever a record and its parent are
\* both candidates the parent is never returned, and the child is returned by
\* the name search exactly when it is not itself the parent of a candidate and
\* its matched text is not strictly inside the matched text of another
\* candidate that parent suppression kept.
C1_ParentSuppressed ==
  (Searched /\ ParentLinksAcyclic) =>
    \A c, p \in CandidateIds :
      TheCourt(c).parent = p =>
        /\ p \notin Returned
        /\ p \notin ReturnedByName
        /\ c \in ReturnedByName <=>
             /\ ~IsParentOfCandidate(c)
             /\ ~\E k \in NotSuppressedParents : StrictlyInside(TextOf(c), TextOf(k))

C1_Witness ==
  /\ Searched
  /\ ParentLinksAcyclic
  /\ \E c, p \in CandidateIds :
       TheCourt(c).parent = p /\ c \in Returned /\ p \notin Returned

\* The same call without its location filter.
Unfiltered ==
  NameSearch(CourtsNow, RegexesNow, CourtDictNow, req.courtStr, req.bankruptcy,
             <<>>, req.allowPartialMatches)

UnfilteredResult ==
  IF IsNone(req.date) THEN Unfiltered.ids
  ELSE DateFiltered(Unfiltered.ids, CourtDictNow, Val(req.date))

UnfilteredCandidateIds ==
  {Unfiltered.matches[i].courtId : i \in 1..Len(Unfiltered.matches)}

\* The text occurs, ignoring case, in the record's location, name or jurisdiction.
LocationOccurs(court, text) ==
  \E field \in {court.location, court.name, court.jurisdiction} :
    \E i \in 1..(Len(field) - Len(text) + 1) :
      toLowerCase(SubSeq(field, i, i + Len(text) - 1)) = toLowerCase(text)

\* C2 as stated: the ids returned with a location filter are a subset of the
\* ids returned by the same call without it.
C2_Original == Searched => Returned \subseteq Range(UnfilteredResult)

\* C2 amended: the location filter narrows the candidates: every id returned
\* with a location filter is a candidate of the same call without it and its
\* record matches the location; the ids returned are a subset of the ids
\* returned without the filter whenever the unfiltered call's reduction removes
\* no candidate.
C2_LocationNarrowsCandidates ==
  Searched =>
    /\ \A id \in Returned :
         /\ id \in UnfilteredCandidateIds
         /\ Len(req.location) > 0 => LocationOccurs(TheCourt(id), req.location)
    /\ CandidateIds \subseteq UnfilteredCandidateIds
    /\ Len(Unfiltered.filteredMatches) = Len(Unfiltered.matches)
         => Returned \subseteq Range(UnfilteredResult)

C2_Witness ==
  /\ Searched
  /\ Len(req.location) > 0
  /\ Returned # {}
  /\ CandidateIds # UnfilteredCandidateIds
  /\ Len(Unfiltered.filteredMatches) = Len(Unfiltered.matches)

\* C3 as stated: every id returned with bankruptcy = true belongs to a record
\* whose type is "bankruptcy".
C3_Original ==
  (Searched /\ req.bankruptcy = Some(TRUE)) =>
    \A id \in Returned : TheCourt(id).type = "bankruptcy"

\* Some compiled pattern of the record matches the whole of the subject.
MatchesWhole(id, subject) ==
  \E k \in 1..Len(Val(regexes)[id]) :
    LET m == PcreMatch(Val(regexes)[id][k], subject)
    IN m.matched /\ m.fullMatch = subject

\* C4 as stated: with allowPartialMatches false a match that does not cover the
\* whole normalized input makes no candidate, and a record all of whose matches
\* are partial is not returned.
C4_Original ==
  (Searched /\ ~req.allowPartialMatches) =>
    /\ \A i \in 1..Len(last.matches) :
         last.matches[i].matchedText = last.normalizedInput
    /\ \A id \in ReturnedByName : MatchesWhole(id, last.normalizedInput)

\* C5 as stated: a declared example of a record finds the record, without
\* filters and with the bankruptcy filter set to the record's category.
C5_Original ==
  Searched =>
    \A c \in Range(Val(courts)) :
      (/\ req.courtStr \in Range(c.examples)
       /\ Len(req.location) = 0
       /\ IsNone(req.date)
       /\ req.bankruptcy \in {None, Some(c.type = "bankruptcy")})
      => c.id \in Returned

ReducedIds == {last.reducedMatches[i].courtId : i \in 1..Len(last.reducedMatches)}

ReducedTextOf(id) ==
  last.reducedMatches[CHOOSE i \in 1..Len(last.reducedMatches) :
                        last.reducedMatches[i].courtId = id].matchedText

\* C6: a candidate that survived parent suppression is returned if and only if
\* its matched text is not a strict substring of another survivor's matched
\* text; equal matched texts do not suppress each other.
C6_SubstringSuppression ==
  Searched =>
    \A id \in ReducedIds :
      id \in ReturnedByName <=>
        ~\E k \in ReducedIds : StrictlyInside(ReducedTextOf(id), ReducedTextOf(k))

C6_Witness ==
  /\ Searched
  /\ \E a, b, c \in ReducedIds :
       /\ a # b
       /\ ReducedTextOf(a) = ReducedTextOf(b)
       /\ StrictlyInside(ReducedTextOf(a), ReducedTextOf(c))
       /\ a \notin ReturnedByName
       /\ c \in ReturnedByName

\* C7: a non-empty candidate set never yields an empty id list, also with
\* cyclic parent links or when every candidate is the parent of another.
C7_ReductionKeepsNonEmpty ==
  Searched =>
    (Len(last.matches) > 0 =>
       /\ Len(last.reducedMatches) > 0
       /\ ReturnedByName # {}
       /\ IsNone(req.date) => Returned # {})

C7_Witness ==
  /\ Searched
  /\ Len(last.matches) > 1
  /\ \A id \in CandidateIds : IsParentOfCandidate(id)
  /\ ReturnedByName # {}

\* The point lies in the range, both bounds included, an absent bound open.
InRange(range, d) ==
  /\ IsNone(range.start) \/ Val(range.start) <= d
  /\ IsNone(range.end) \/ d <= Val(range.end)

ActiveAt(id, d) ==
  HasCourt(id) /\ \E k \in 1..Len(TheCourt(id).dates) : InRange(TheCourt(id).dates[k], d)

\* What a call of filterCourtsByDate(ids, d) that returns has kept: in order,
\* exactly the ids whose record has a range that contains d (bounds
\* included); a record without ranges is dropped.
C8_DateFilter ==
  (last.op = "filterCourtsByDate" /\ ~IsNone(req.date)) =>
    last.result =
      SelectSeq2(req.courtIds,
                 {i \in 1..Len(req.courtIds) : ActiveAt(req.courtIds[i], Val(req.date))})

C8_Witness ==
  /\ last.op = "filterCourtsByDate"
  /\ ~IsNone(req.date)
  /\ \E i, j, k \in 1..Len(req.courtIds) :
       /\ i < j
       /\ HasCourt(req.courtIds[i]) /\ HasCourt(req.courtIds[j]) /\ HasCourt(req.courtIds[k])
       /\ req.courtIds[i] \in Returned
       /\ req.courtIds[j] \in Returned
       /\ \E r \in Range(TheCourt(req.courtIds[j]).dates) : r.end = req.date
       /\ req.courtIds[k] \notin Returned

\* C9 as stated: an input equal, after normalisation, to the normalised name of
\* an eligible record yields a non-empty result, whatever the record's patterns.
C9_Original ==
  (Searched /\ IsNone(req.date)) =>
    ((\E c \in Range(Val(courts)) :
        /\ NormalizeInput(c.name) = last.normalizedInput
        /\ IsNone(req.bankruptcy)
        /\ Len(req.location) = 0)
     => Returned # {})

\* C10 as stated: loadCourtsDb, makeCourtDictionary and gatherRegexes are each
\* executed at most once, however the calls interleave.
C10_Original == loadCount <= 1 /\ dictCount <= 1 /\ gatherCount <= 1

\* The call needs the registry: findCourt and findCourtById always, a filter
\* when its date or category is given.
CallNeedsRegistry(call) ==
  \/ call \in {"findCourt", "findCourtById"}
  \/ call = "filterCourtsByDate" /\ ~IsNone(req.date)
  \/ call = "filterCourtsByBankruptcy" /\ ~IsNone(req.bankruptcy)

\* C11 as stated: no call is the first point at which a registry load error is
\* raised (importing the module loads nothing, so an error raised by the first
\* load attempt is raised by a call).
C11_Original == ~(last.op = "threw" /\ last.attempt = 1)

\* C11 amended: the registry is loaded by the first call that needs it, and a
\* load error is raised by that call and again by every later call that needs
\* the registry (a failed load caches nothing); a call that needs no registry
\* never raises it, and no call that needs the registry completes on a file
\* that cannot be loaded.
C11_LoadErrorAtFirstUse ==
  /\ last.op = "threw" =>
       /\ IsNone(courtsJson)
       /\ CallNeedsRegistry(last.call)
       /\ last.attempt = loadCount
       /\ IsNone(courts) /\ IsNone(courtDict) /\ IsNone(regexes)
  /\ (IsNone(courtsJson) /\ last.op \notin {"none", "threw"}) =>
       ~CallNeedsRegistry(last.op)
  /\ (~IsNone(courtsJson) \/ loadCount = 0) => last.op # "threw"

C11_Witness ==
  /\ IsNone(courtsJson)
  /\ req.op = "filterCourtsByDate"
  /\ IsNone(req.date)
  /\ last.op = "threw"
  /\ last.call = "filterCourtsByBankruptcy"
  /\ last.attempt = 1

\* C12 as stated: in every loaded registry each non-null parent resolves to an
\* existing record (a file with an unresolved parent is never loaded).
C12_Original ==
  ~IsNone(courts) =>
    \A c \in Range(Val(courts)) : Len(c.parent) > 0 => HasCourt(c.parent)

\* The findCourt calls that have returned.
DoneCalls == {c \in Calls : calls[c].pc = "done"}

\* C13: two findCourt calls with identical arguments return the same set of
\* ids, whatever calls ran between them or interleaved with them, the call
\* that triggered the lazy initialization included.
C13_Idempotent ==
  \A c, d \in DoneCalls :
    calls[c].args = calls[d].args => Range(calls[c].result) = Range(calls[d].result)

C13_Witness ==
  /\ gatherCount = 1
  /\ last.op = "findCourtById"
  /\ \E c, d \in DoneCalls :
       /\ c # d
       /\ calls[c].args = calls[d].args
       /\ calls[c].result # <<>>
       /\ calls[c].result = calls[d].result

\* The pattern is one the compiler accepts.
Compiles(pattern) == \A i \in 1..Len(pattern) : pattern[i] # "("

\* The patterns of the record that compile, in their original order, compiled.
CompiledOf(court) ==
  LET good == SelectSeq(court.regex \o <<court.name>>, Compiles)
  IN [i \in 1..Len(good) |-> [src |-> unidecode(good[i]), icase |-> TRUE]]

\* C14: gatherRegexes does not fail on a pattern that does not compile: the
\* compiled map has an entry for every record of the registry, holding exactly
\* the record's patterns that compile, in their original order.
C14_CompileFailureIsolated ==
  /\ Searched => ~IsNone(regexes)
  /\ ~IsNone(regexes) =>
       /\ DOMAIN Val(regexes) = {c.id : c \in Range(Val(courts))}
       /\ \A c \in Range(Val(courts)) : Val(regexes)[c.id] = CompiledOf(c)

C14_Witness ==
  /\ ~IsNone(regexes)
  /\ \E c, d, e \in Range(Val(courts)) :
       /\ Len(c.regex) = 2 /\ ~Compiles(c.regex[2]) /\ Len(Val(regexes)[c.id]) = 2
       /\ ~Compiles(d.name) /\ Val(regexes)[d.id] = <<>>
       /\ e.id \notin {c.id, d.id} /\ Len(Val(regexes)[e.id]) = 1

\* The two filters as functions of their arguments and the dictionary.
filterCourtsByDate(courtIds, dict, date) ==
  IF IsNone(date) THEN courtIds ELSE DateFiltered(courtIds, dict, Val(date))

filterCourtsByBankruptcy(courtIds, dict, bankruptcy) ==
  IF IsNone(bankruptcy) THEN courtIds
  ELSE BankruptcyFiltered(courtIds, dict, Val(bankruptcy))

FilterCalled == last.op \in {"filterCourtsByDate", "filterCourtsByBankruptcy"}

\* Filter calls that return: the two calls made one after the other return
\* what the calls made in the opposite order return, and every call returns
\* ids of its input only.
C15_FiltersCommute ==
  /\ FilterCalled => Range(last.result) \subseteq Range(last.courtIds)
  /\ (req.op = "filterCourtsByDate" /\ last.op = "filterCourtsByBankruptcy") =>
       last.result =
         filterCourtsByDate(
           filterCourtsByBankruptcy(req.courtIds, CourtDictNow, req.bankruptcy),
           CourtDictNow, req.date)
  /\ (req.op = "filterCourtsByBankruptcy" /\ last.op = "filterCourtsByDate") =>
       last.result =
         filterCourtsByBankruptcy(
           filterCourtsByDate(req.courtIds, CourtDictNow, req.date),
           CourtDictNow, req.bankruptcy)

C15_Witness ==
  /\ req.op = "filterCourtsByDate"
  /\ last.op = "filterCourtsByBankruptcy"
  /\ ~IsNone(req.date) /\ ~IsNone(req.bankruptcy)
  /\ Len(req.courtIds) > Len(last.courtIds)
  /\ Len(last.courtIds) > Len(last.result)
  /\ Len(last.result) > 0

\* No element occurs twice in the sequence.
NoRepeats(s) == \A i, j \in 1..Len(s) : i # j => s[i] # s[j]

\* The compiled patterns of the record that match the subject.
MatchingPatterns(id, subject) ==
  {k \in 1..Len(Val(regexes)[id]) : PcreMatch(Val(regexes)[id][k], subject).matched}

\* C16: each record contributes at most one candidate to a name search, also
\* when several of its patterns match, and no id is returned twice.
C16_OneCandidatePerRecord ==
  Searched =>
    /\ NoRepeats([i \in 1..Len(last.matches) |-> last.matches[i].courtId])
    /\ Len(last.matches) <= Len(Val(courts))
    /\ NoRepeats([i \in 1..Len(last.filteredMatches) |->
                    last.filteredMatches[i].courtId])
    /\ NoRepeats(last.result)

C16_Witness ==
  /\ Searched
  /\ \E id \in Returned :
       Cardinality(MatchingPatterns(id, last.normalizedInput)) = 2
  /\ Len(last.result) = 2

\* The records as the file declares them, before inheritance.
Declared == Val(courtsJson)

\* The record of the file that the parent field of the file's i-th record names.
DeclaredParent(i) ==
  CHOOSE p \in Range(Declared) : p.id = Declared[i].parent

HasDeclaredParent(i) ==
  Len(Declared[i].parent) > 0 /\ \E p \in Range(Declared) : p.id = Declared[i].parent

\* C17 as stated, for files whose parent links are acyclic: after loading, each of dates, type and location that a record
\* with a resolvable parent did not declare equals the value its immediate
\* parent declared, in whatever order the file lists the records, and the
\* fields it declared are unchanged.
C17_Original ==
  (~IsNone(courts) /\ ParentLinksAcyclic) =>
    \A i \in 1..Len(Declared) :
      HasDeclaredParent(i) =>
        /\ Val(courts)[i].dates =
             (IF Len(Declared[i].dates) = 0 THEN DeclaredParent(i).dates
              ELSE Declared[i].dates)
        /\ Val(courts)[i].type =
             (IF Declared[i].type = "" THEN DeclaredParent(i).type
              ELSE Declared[i].type)
        /\ Val(courts)[i].location =
             (IF Len(Declared[i].location) = 0 THEN DeclaredParent(i).location
              ELSE Declared[i].location)

\* C18: once a structure of the registry is initialized no call changes it
\* (the records, the id-to-record map, the compiled pattern lists), and no
\* call changes the arguments it was given.
C18_RegistryImmutable ==
  [][/\ ~IsNone(courts) => courts' = courts
     /\ ~IsNone(courtDict) => courtDict' = courtDict
     /\ ~IsNone(regexes) => regexes' = regexes
     /\ req' = req
     /\ \A c \in Calls :
          (calls[c].pc \notin {"idle", "done"}) => calls'[c].args = calls[c].args]_vars

C18_Witness ==
  /\ gatherCount = 2
  /\ ~IsNone(regexes) /\ ~IsNone(courtDict)
  /\ DoneCalls = Calls
  /\ FilterCalled
  /\ Len(last.result) < Len(last.courtIds)

\* The records the scan makes candidates when no location is asked for: those
\* the category filter admits and one of whose compiled patterns matches.
WouldMatchIds ==
  {c.id : c \in {k \in Range(Val(courts)) :
                   /\ IsNone(req.bankruptcy) \/ Val(req.bankruptcy) = isBankruptcyCourt(k)
                   /\ MatchingPatterns(k.id, last.normalizedInput) # {}}}

AfterParents ==
  IF NotSuppressedParents = {} THEN CandidateIds ELSE NotSuppressedParents

\* The ids the name search returns for the candidates: those parent suppression
\* left whose matched text is not strictly inside another such candidate's.
NameIds ==
  {id \in AfterParents :
     ~\E k \in AfterParents : StrictlyInside(TextOf(id), TextOf(k))}

InNameIds(id) == id \in NameIds

ActiveAtDate(id) == ActiveAt(id, Val(req.date))

\* The ids of the candidates, in scan order.
CandidateSeq == [i \in 1..Len(last.matches) |-> last.matches[i].courtId]

\* C20: findCourt returns the result of the name search, passed through the
\* date filter when a date is given: the date filter sees only the ids that
\* matching and reduction returned, so the result with a date is a part of the
\* result without it and no candidate that the reduction removed comes back.
C20_PipelineComposition ==
  Searched =>
    /\ [i \in 1..Len(last.filteredMatches) |-> last.filteredMatches[i].courtId]
         = SelectSeq(CandidateSeq, InNameIds)
    /\ last.result =
         (IF IsNone(req.date) THEN SelectSeq(CandidateSeq, InNameIds)
          ELSE SelectSeq(SelectSeq(CandidateSeq, InNameIds), ActiveAtDate))
    /\ Returned \subseteq ReturnedByName
    /\ \A id \in CandidateIds \ ReturnedByName : id \notin Returned

C20_Witness ==
  /\ Searched
  /\ ~IsNone(req.date)
  /\ \E p \in CandidateIds \ ReturnedByName : ActiveAt(p, Val(req.date))
  /\ \E c \in ReturnedByName : c \notin Returned
  /\ Returned # {}


\* ---------------------------------------------------------------------------
\* Lookup by id and the dictionary's prototype
\* ---------------------------------------------------------------------------

\* C21: findCourtById(id) returns the list of the one registry record with
\* that id, and the empty list when the registry has no such record.
C21_Original ==
  (last.op = "findCourtById") =>
    last.result = IF HasCourt(req.courtId) THEN <<TheCourt(req.courtId)>> ELSE <<>>

\* A filter call that was given its criterion has run: it returned or raised.
DateFilterRan ==
  /\ req.op = "filterCourtsByDate"
  /\ ~IsNone(req.date)
  /\ last.op \in {"filterCourtsByDate", "typeError"}

BankruptcyFilterRan ==
  /\ req.op = "filterCourtsByBankruptcy"
  /\ ~IsNone(req.bankruptcy)
  /\ last.op \in {"filterCourtsByBankruptcy", "typeError"}

\* C8, for every id list: the call of filterCourtsByDate(ids, d) returns, and
\* returns in order exactly the ids whose record has a range containing d.
C8_Original ==
  DateFilterRan => (last.op = "filterCourtsByDate" /\ C8_DateFilter)

\* C15, for every id list: each filter call returns, with ids of its input
\* only, and the two calls in either order return the same ids.
C15_Original ==
  /\ (DateFilterRan \/ BankruptcyFilterRan) => last.op # "typeError"
  /\ C15_FiltersCommute


\* ---------------------------------------------------------------------------
\* Unspecified criteria
\* ---------------------------------------------------------------------------

\* A call that raised (a load error or a TypeError of the callback).
Raised == last.op \in {"threw", "typeError"}

\* C22: a filter called without its criterion returns its input list as it
\* is, ids that no record has included, and raises nothing; a name search
\* without a category makes a candidate of every record whose location is
\* admitted and one of whose patterns matches, whatever its category.
C22_UnspecifiedNoOp ==
  /\ (last.op = "filterCourtsByDate" /\ IsNone(req.date)) => last.result = last.courtIds
  /\ (last.op = "filterCourtsByBankruptcy" /\ IsNone(req.bankruptcy))
       => last.result = last.courtIds
  /\ (Raised /\ last.call = "filterCourtsByDate") => ~IsNone(req.date)
  /\ (Raised /\ last.call = "filterCourtsByBankruptcy") => ~IsNone(req.bankruptcy)
  /\ (Searched /\ IsNone(req.bankruptcy)) =>
       \A c \in Range(Val(courts)) :
         ( /\ Len(req.location) = 0 \/ LocationOccurs(c, req.location)
           /\ MatchingPatterns(c.id, last.normalizedInput) # {} )
         => c.id \in CandidateIds

C22_Witness ==
  /\ req.op = "filterCourtsByBankruptcy"
  /\ last.op = "filterCourtsByDate"
  /\ IsNone(req.bankruptcy) /\ IsNone(req.date)
  /\ last.result = req.courtIds
  /\ id_constructor \in Range(last.result)
  /\ IsNone(courtDict)

C22_WitnessSearch ==
  /\ Searched /\ IsNone(req.bankruptcy)
  /\ \E a, b \in CandidateIds :
       isBankruptcyCourt(TheCourt(a)) /\ ~isBankruptcyCourt(TheCourt(b))


\* ---------------------------------------------------------------------------
\* Order of the two reductions
\* ---------------------------------------------------------------------------

\* The candidates parent suppression leaves for substring suppression: those
\* that are no candidate's parent, or all of them when that leaves none.
Survivors == IF NotSuppressedParents = {} THEN CandidateIds ELSE NotSuppressedParents

\* C23: parent suppression runs first, on all candidates; substring
\* suppression runs second and compares matched texts of the survivors only,
\* so a survivor whose matched text is strictly inside the matched text of
\* parent-suppressed candidates only is returned.
C23_ResolutionOrder ==
  Searched =>
    /\ ReducedIds = Survivors
    /\ ReturnedByName =
         {id \in Survivors :
            ~\E k \in Survivors : StrictlyInside(TextOf(id), TextOf(k))}
    /\ \A id \in Survivors :
         (\A k \in CandidateIds :
            StrictlyInside(TextOf(id), TextOf(k)) => k \notin Survivors)
         => id \in ReturnedByName

C23_Witness ==
  /\ Searched
  /\ \E id \in Survivors :
       /\ \E k \in CandidateIds \ Survivors : StrictlyInside(TextOf(id), TextOf(k))
       /\ id \in ReturnedByName


\* ---------------------------------------------------------------------------
\* The matched text of a candidate
\* ---------------------------------------------------------------------------

\* The span the first matching compiled pattern of the record matches.
FirstSpan(id, subject) ==
  LET k == CHOOSE m \in MatchingPatterns(id, subject) :
             \A o \in MatchingPatterns(id, subject) : m <= o
  IN PcreMatch(Val(regexes)[id][k], subject).fullMatch

\* C24: the patterns of a record are tried in the order of its pattern list
\* followed by its name, and a candidate's matched text is the span matched by
\* the first of them that matches the normalized input, an empty span
\* included.
C24_Original ==
  Searched =>
    /\ \A c \in Range(Val(courts)) :
         Val(regexes)[c.id] = CompileAll(c.regex \o <<c.name>>)
    /\ \A i \in 1..Len(last.matches) :
         last.matches[i].matchedText =
           FirstSpan(last.matches[i].courtId, last.normalizedInput)


\* ---------------------------------------------------------------------------
\* Ordinal ranges in pattern templates
\* ---------------------------------------------------------------------------

\* The range names positions of the ordinal table, in order.
WellFormedRange(piece) ==
  piece.kind = "ordinals" => (1 <= piece.start /\ piece.start <= piece.end
                              /\ piece.end <= Len(ordinals))

\* The ordinal words at positions n..m, separated by bars, in parentheses.
Alternation(n, m) ==
  <<"(">> \o join([k \in 1..(m - n + 1) |-> ordinals[n + k - 1]], <<"|">>) \o <<")">>

\* What a piece of a template stands for in the loaded pattern.
MeaningOf(piece) ==
  CASE piece.kind = "text" -> piece.text
    [] piece.kind = "var" -> <<"x", "y">>
    [] piece.kind = "ordinals" -> Alternation(piece.start, piece.end)

RECURSIVE MeaningOfAll(_)
MeaningOfAll(pieces) ==
  IF Len(pieces) = 0 THEN <<>> ELSE MeaningOf(Head(pieces)) \o MeaningOfAll(Tail(pieces))

TemplatesLoaded == req.op = "courts" /\ last.op # "none"

\* C25: every ${n-m} with 1 <= n <= m within the table is replaced, before
\* the variables are substituted, by the parenthesized alternation of the
\* m-n+1 ordinal words at positions n..m; a file with a range that is
\* reversed, starts at 0 or ends beyond the table does not load.
C25_Original ==
  TemplatesLoaded =>
    IF \A k \in 1..Len(req.pieces) : WellFormedRange(req.pieces[k])
    THEN last.op = "courts" /\ last.result[1].regex[1] = MeaningOfAll(req.pieces)
    ELSE last.op = "threw"

\* The part of C25 on ranges within the table.
C25_RangesWithinTable ==
  (TemplatesLoaded /\ \A k \in 1..Len(req.pieces) : WellFormedRange(req.pieces[k]))
    => (last.op = "courts" /\ last.result[1].regex[1] = MeaningOfAll(req.pieces))


\* ---------------------------------------------------------------------------
\* Concurrent first callers
\* ---------------------------------------------------------------------------

\* What findCourt returns for these arguments when it is the only call and the
\* registry, the dictionary and the compiled patterns are already there.
SoloResult(args) ==
  LET cs == loadCourtsDb(Val(courtsJson))
      dict == makeCourtDictionary(cs)
      r == NameSearch(cs, gatherRegexes(cs), dict, args.courtStr, args.bankruptcy,
                      args.location, args.allowPartialMatches)
  IN filterCourtsByDate(r.ids, dict, args.date)

\* C26: every findCourt call, whatever calls it interleaved with, returns (in
\* the step that ends it) the ids the same call returns alone on an
\* initialized registry, and the compiled patterns, once set, are never unset.
C26_ConcurrentAsSequential ==
  [][/\ ~IsNone(regexes) => ~IsNone(regexes')
     /\ \A c \in Calls :
          (calls[c].pc = "named" /\ calls'[c].pc = "done")
            => calls'[c].result = SoloResult(calls'[c].args)]_vars

\* Two calls that both found the compiled patterns missing and compiled them
\* have both returned, with ids.
C26_Witness ==
  /\ gatherCount = 2
  /\ DoneCalls = Calls
  /\ \E c, d \in Calls :
       /\ c # d
       /\ calls[c].args # calls[d].args
       /\ calls[c].result # <<>> /\ calls[d].result # <<>>
       /\ calls[c].result = SoloResult(calls[c].args)
       /\ calls[d].result = SoloResult(calls[d].args)


\* ---------------------------------------------------------------------------
\* Consistency of the caches
\* ---------------------------------------------------------------------------

\* The ids of the loaded records.
LoadedIds == {Val(courts)[i].id : i \in 1..Len(Val(courts))}

\* Some call ended with the exception of the registry load.
LoadThrew == last.op = "threw" \/ \E c \in Calls : calls[c].pc = "rejected"

\* C27: a dictionary that is set maps exactly the ids of the loaded records,
\* each to a loaded record with that id; compiled patterns that are set hold a
\* list, possibly empty, for exactly the ids of the loaded records; neither is
\* set while the records are not; a load that throws leaves every cache null.
C27_CacheConsistency ==
  /\ ~IsNone(courtDict) =>
       /\ ~IsNone(courts)
       /\ DOMAIN Val(courtDict) = LoadedIds
       /\ \A id \in DOMAIN Val(courtDict) :
            Val(courtDict)[id] \in Range(Val(courts)) /\ Val(courtDict)[id].id = id
  /\ ~IsNone(regexes) =>
       /\ ~IsNone(courts)
       /\ DOMAIN Val(regexes) = LoadedIds
       /\ \A id \in LoadedIds : Len(Val(regexes)[id]) >= 0
  /\ LoadThrew => (IsNone(courts) /\ IsNone(courtDict) /\ IsNone(regexes))

C27_Witness ==
  /\ ~IsNone(courtDict) /\ ~IsNone(regexes)
  /\ gatherCount = 2
  /\ \E id \in LoadedIds : Val(regexes)[id] = <<>>
  /\ \E id \in LoadedIds : Val(regexes)[id] # <<>>

C27_WitnessThrow ==
  /\ last.op = "threw" /\ last.call = "courtDict"
  /\ \E c \in Calls : calls[c].pc = "rejected"
  /\ IsNone(courts) /\ IsNone(courtDict) /\ IsNone(regexes)

====
